---------------------------- MODULE Spec2Model ----------------------------
(***************************************************************************)
(* The WAX archive format: build_archive (crates/wax-builder/src/main.rs)  *)
(* and WaxReader (crates/wax-core/src/reader.rs) over a small file system  *)
(* holding the input directory, the output archive, the builder's          *)
(* temporary index database and the reader's extracted index copy.         *)
(*                                                                         *)
(* Files are sequences of bytes (0..255).  Paths are sequences of          *)
(* character codes.  The two libraries the code calls are modelled by what *)
(* the code relies on: zstd as a framed, length-checked byte transform,    *)
(* SQLite as a database image that is a header (signature, row count)      *)
(* followed by the rows in rowid order, opened lazily.                     *)
(***************************************************************************)
EXTENDS Integers, Sequences, FiniteSets, TLC

VARIABLES
    inputs,              \* the input directory: raw relative path -> content
    out,                 \* the output archive file: [exists, data]
    out_pos,             \* output_file's handle position
    tempdb,              \* <output>.db.temp: [exists, data]
    bpc,                 \* build_archive's position
    failedAt,            \* the step at which build_archive returned Err
    files_to_process,    \* main.rs:81
    processed,           \* number of loop iterations completed (bar position)
    current_offset,      \* main.rs:100
    index_start_offset,  \* main.rs:130
    index_length,        \* main.rs:134
    stale_found,         \* temp_db_path.exists() as main.rs:65 found it
    tampered,            \* the archive was truncated after it was built
    rstate,              \* the WaxReader: "none", "open" or "failed"
    rpos,                \* archive_file's handle position
    rtemp,               \* _temp_index: [exists, data]
    rres,                \* the result of the reader's last call
    readers,             \* WaxReader instances side by side: reader -> fields
    hpos,                \* open file description -> handle position
    temps                \* temporary file name -> [exists, data]

bvars == <<bpc, failedAt, files_to_process, processed, current_offset,
           index_start_offset, index_length, stale_found>>
rvars == <<rstate, rpos, rtemp, rres>>
mvars == <<readers, hpos, temps>>
svars == <<inputs, out, out_pos, tempdb, bvars, tampered, rvars>>
vars == <<svars, mvars>>

----------------------------------------------------------------------------
(* Bounds *)

\* most files in the input directory
MaxFiles == 2

----------------------------------------------------------------------------
(* Bytes, integers, sequences *)

Zeros(n) == [i \in 1..n |-> 0]

Min(a, b) == IF a <= b THEN a ELSE b

Max(a, b) == IF a >= b THEN a ELSE b

\* bytes [lo, hi) of a file, by 0-based offsets as the code counts them
Range(data, lo, hi) == SubSeq(data, lo + 1, Min(hi, Len(data)))

\* little-endian bytes of n, w bytes wide (zerocopy AsBytes on a repr(C) struct)
RECURSIVE ToLE(_, _)
ToLE(n, w) == IF w = 0 THEN <<>> ELSE <<n % 256>> \o ToLE(n \div 256, w - 1)

RECURSIVE FromLE(_)
FromLE(b) == IF b = <<>> THEN 0 ELSE b[1] + 256 * FromLE(Tail(b))

\* a write of bytes at position pos of a file: overwrites, then extends
WriteAt(data, pos, bytes) ==
    [i \in 1..Max(Len(data), pos + Len(bytes)) |->
        IF i > pos /\ i <= pos + Len(bytes) THEN bytes[i - pos]
        ELSE IF i <= Len(data) THEN data[i]
        ELSE 0]

\* lexicographic order on paths (SQLite's BINARY collation)
RECURSIVE PathLess(_, _)
PathLess(p, q) ==
    IF q = <<>> THEN FALSE
    ELSE IF p = <<>> THEN TRUE
    ELSE IF p[1] # q[1] THEN p[1] < q[1]
    ELSE PathLess(Tail(p), Tail(q))

NoFile == [exists |-> FALSE, data |-> <<>>]

FileOf(d) == [exists |-> TRUE, data |-> d]

----------------------------------------------------------------------------
(* The header: crates/wax-core/src/lib.rs *)

HEADER_SIZE == 64

WAX_MAGIC == <<87, 65, 88, 49>>

\* header.as_bytes(): magic(4) version(4) uuid(16) index_offset(8)
\* index_length(8) compression_type(1) padding(23)
AsBytes(h) ==
    h.magic \o ToLE(h.version, 4) \o h.uuid \o ToLE(h.index_offset, 8)
        \o ToLE(h.index_length, 8) \o <<h.compression_type>> \o h.padding

\* WaxHeader::read_from on a 64-byte buffer
ReadFrom(b) ==
    [magic |-> SubSeq(b, 1, 4),
     version |-> FromLE(SubSeq(b, 5, 8)),
     uuid |-> SubSeq(b, 9, 24),
     index_offset |-> FromLE(SubSeq(b, 25, 32)),
     index_length |-> FromLE(SubSeq(b, 33, 40)),
     compression_type |-> b[41],
     padding |-> SubSeq(b, 42, 64)]

\* the header build_archive writes (main.rs:137-145)
BuiltHeaderSwapped(off, len) ==
    [magic |-> WAX_MAGIC, version |-> 1, uuid |-> Zeros(16),
     index_offset |-> len, index_length |-> off,
     compression_type |-> 1, padding |-> Zeros(23)]

BuiltHeader(off, len) ==
    [magic |-> WAX_MAGIC, version |-> 1, uuid |-> Zeros(16),
     index_offset |-> off, index_length |-> len,
     compression_type |-> 1, padding |-> Zeros(23)]

----------------------------------------------------------------------------
(* zstd: a frame is a magic number, the content size, and the payload *)

ZstdFrameMagic == <<40, 181, 47, 253>>

\* zstd::stream::encode_all(&raw_data[..], 3)
EncodeAll(raw) ==
    ZstdFrameMagic \o <<Len(raw)>> \o [i \in 1..Len(raw) |-> 255 - raw[i]]

\* zstd::stream::decode_all: no frame decodes to nothing, one whole frame to
\* its payload, anything else is an error
DecodeAll(b) ==
    IF b = <<>> THEN [ok |-> TRUE, data |-> <<>>]
    ELSE IF /\ Len(b) >= 5
            /\ SubSeq(b, 1, 4) = ZstdFrameMagic
            /\ b[5] = Len(b) - 5
         THEN [ok |-> TRUE, data |-> [i \in 1..(Len(b) - 5) |-> 255 - b[i + 5]]]
         ELSE [ok |-> FALSE, data |-> <<>>]

----------------------------------------------------------------------------
(* The index database (rusqlite/SQLite): table files, rows in rowid order *)

Null == "NULL"

MimeTable == <<"application/octet-stream", "application/javascript">>

MimeCode(m) ==
    IF m = Null THEN 0 ELSE CHOOSE i \in 1..Len(MimeTable) : MimeTable[i] = m

MimeOfCode(c) == IF c \in 1..Len(MimeTable) THEN MimeTable[c] ELSE Null

DbSignature == <<83, 81, 76>>

SerializeRow(r) ==
    <<Len(r.path)>> \o r.path
        \o <<MimeCode(r.mime_type), r.blob_offset, r.blob_length, r.original_size>>

RECURSIVE SerializeRows(_)
SerializeRows(rows) ==
    IF rows = <<>> THEN <<>>
    ELSE SerializeRow(Head(rows)) \o SerializeRows(Tail(rows))

\* the database file once table files exists and rows are committed
DbImage(rows) == DbSignature \o <<Len(rows)>> \o SerializeRows(rows)

RECURSIVE ParseRows(_, _)
ParseRows(s, n) ==
    IF n = 0 THEN [ok |-> s = <<>>, rows |-> <<>>]
    ELSE IF Len(s) < 1 \/ Len(s) < s[1] + 5 THEN [ok |-> FALSE, rows |-> <<>>]
    ELSE LET k == s[1]
             row == [path |-> SubSeq(s, 2, k + 1),
                     mime_type |-> MimeOfCode(s[k + 2]),
                     blob_offset |-> s[k + 3],
                     blob_length |-> s[k + 4],
                     original_size |-> s[k + 5]]
             rest == ParseRows(SubSeq(s, k + 6, Len(s)), n - 1)
         IN  [ok |-> rest.ok, rows |-> <<row>> \o rest.rows]

\* what a connection sees in a database file: an empty file is a database
\* with no tables, a whole image is table files with its rows, anything else
\* (a truncated or foreign image) is not a usable database
OpenDb(img) ==
    IF img = <<>> THEN [ok |-> TRUE, table |-> FALSE, rows |-> <<>>]
    ELSE IF Len(img) >= 4 /\ SubSeq(img, 1, 3) = DbSignature
         THEN LET r == ParseRows(SubSeq(img, 5, Len(img)), img[4])
              IN  [ok |-> r.ok, table |-> r.ok, rows |-> IF r.ok THEN r.rows ELSE <<>>]
         ELSE [ok |-> FALSE, table |-> FALSE, rows |-> <<>>]

\* statements can be prepared against table files
Queryable(img) == OpenDb(img).ok /\ OpenDb(img).table

\* INSERT INTO files (main.rs:95-98, 115-121): table files has no UNIQUE
\* constraint on path (main.rs:69-76), so every insert appends a row
InsertRow(img, row) == DbImage(Append(OpenDb(img).rows, row))

\* SELECT ... WHERE path = ?1 with query_row(...).optional(): the first
\* matching row in rowid order, or none
RowsWithPath(rows, path) == {i \in 1..Len(rows) : rows[i].path = path}

QueryRow(rows, path) ==
    IF RowsWithPath(rows, path) = {} THEN <<>>
    ELSE LET i == CHOOSE i \in RowsWithPath(rows, path) :
                      \A j \in RowsWithPath(rows, path) : i <= j
         IN  <<rows[i]>>

\* the rows of a SELECT with no ORDER BY: rowid order
RowidOrder(rows) == rows

\* ORDER BY path ASC: rows by ascending path, equal paths in rowid order
RECURSIVE OrderByPath(_)
OrderByPath(rows) ==
    IF rows = <<>> THEN <<>>
    ELSE LET i == CHOOSE i \in 1..Len(rows) :
                      \A j \in 1..Len(rows) :
                          \/ PathLess(rows[i].path, rows[j].path)
                          \/ (rows[i].path = rows[j].path /\ i <= j)
             rest == [j \in 1..(Len(rows) - 1) |-> IF j < i THEN rows[j] ELSE rows[j + 1]]
         IN  <<rows[i]>> \o OrderByPath(rest)

----------------------------------------------------------------------------
(* The input directory *)

Slash == <<47>>

Backslash == <<92>>

\* a/b, a\b (one file name holding a backslash) and c.js
RawPaths == {<<97, 47, 98>>, <<97, 92, 98>>, <<99, 46, 106, 115>>}

\* a path that is in no archive
MissingPath == <<122>>

\* file contents: empty, a zero byte, binary bytes
Contents == {<<>>, <<0>>, <<255, 10>>}

\* the directories the builder is run on
InputDirs ==
    UNION {[S -> Contents] : S \in {T \in SUBSET RawPaths : Cardinality(T) <= MaxFiles}}

\* relative_path.replace("\\", "/") (main.rs:104)
Normalize(p) == [i \in 1..Len(p) |-> IF <<p[i]>> = Backslash THEN Slash[1] ELSE p[i]]

\* mime_guess::from_path(&path).first_or_octet_stream() (main.rs:106)
MimeGuess(p) ==
    IF Len(p) >= 3 /\ SubSeq(p, Len(p) - 2, Len(p)) = <<46, 106, 115>>
    THEN MimeTable[2] ELSE MimeTable[1]

\* every order in which the files of a set can be listed
Orders(S) ==
    {f \in [1..Cardinality(S) -> S] : \A i, j \in 1..Cardinality(S) : i # j => f[i] # f[j]}

----------------------------------------------------------------------------
(* build_archive: crates/wax-builder/src/main.rs:58-152 *)

\* let mut current_offset = 64u64 (main.rs:100)
InitialOffset == 64

\* the placeholder header: write_all(&[0u8; 64]) (main.rs:62)
PlaceholderWithMagic == AsBytes(BuiltHeader(0, 0))

PlaceholderBytes == Zeros(HEADER_SIZE)

\* the row one loop iteration inserts (main.rs:103-121)
IndexRowAfterAdvance(path, raw_data, offset) ==
    [path |-> Normalize(path),
     mime_type |-> MimeGuess(path),
     blob_offset |-> offset + Len(EncodeAll(raw_data)),
     blob_length |-> Len(EncodeAll(raw_data)),
     original_size |-> Len(raw_data)]

IndexRow(path, raw_data, offset) ==
    [path |-> Normalize(path),
     mime_type |-> MimeGuess(path),
     blob_offset |-> offset,
     blob_length |-> Len(EncodeAll(raw_data)),
     original_size |-> Len(raw_data)]

\* current_offset += blob_length (main.rs:123)
AdvanceOffsetStuck(offset, blob_length) == offset

AdvanceOffset(offset, blob_length) == offset + blob_length

\* how much of an n-byte write can have reached the file when it fails
PartialLens(n) == {k \in {0, Len(WAX_MAGIC), n - 1} : k >= 0 /\ k < n}

\* a step returns Err through `?`: build_archive is over
Fail(step) ==
    /\ bpc' = "aborted"
    /\ failedAt' = step
    /\ UNCHANGED <<files_to_process, processed, current_offset,
                   index_start_offset, index_length, stale_found>>

Running == bpc \notin {"idle", "done", "aborted"}

\* File::create(&output) (main.rs:61); a build starts when no build runs
CreateOutput ==
    /\ ~Running
    /\ rstate = "none"
    /\ \/ /\ out' = FileOf(<<>>)
          /\ bpc' = "created"
          /\ tampered' = FALSE
       \/ /\ bpc' = "aborted"
          /\ UNCHANGED <<out, tampered>>
    /\ failedAt' = IF bpc' = "aborted" THEN "create" ELSE "none"
    /\ out_pos' = 0
    /\ files_to_process' = <<>>
    /\ processed' = 0
    /\ current_offset' = 0
    /\ index_start_offset' = 0
    /\ index_length' = 0
    /\ stale_found' = FALSE
    /\ UNCHANGED <<mvars, inputs, tempdb, rvars>>

\* output_file.write_all(&[0u8; 64]) (main.rs:62)
WritePlaceholder ==
    /\ bpc = "created"
    /\ \/ /\ out' = FileOf(WriteAt(out.data, out_pos, PlaceholderBytes))
          /\ out_pos' = out_pos + Len(PlaceholderBytes)
          /\ bpc' = "placeholder"
          /\ UNCHANGED <<failedAt, files_to_process, processed, current_offset,
                         index_start_offset, index_length, stale_found>>
       \/ \E k \in PartialLens(Len(PlaceholderBytes)) :
            /\ out' = FileOf(WriteAt(out.data, out_pos, SubSeq(PlaceholderBytes, 1, k)))
            /\ out_pos' = out_pos + k
            /\ Fail("placeholder")
    /\ UNCHANGED <<mvars, inputs, tempdb, tampered, rvars>>

\* the database Connection::open and CREATE TABLE make at temp_db_path once
\* the file found there has been removed (main.rs:65-78)
ReusedIndex(stale) ==
    IF stale.exists /\ Queryable(stale.data) THEN stale.data ELSE DbImage(<<>>)

FreshIndex(stale) == DbImage(<<>>)

\* the rows a whole build inserts, processing order, from offset on
\* (main.rs:102-125)
RECURSIVE RowsOf(_, _, _)
RowsOf(order, dir, offset) ==
    IF order = <<>> THEN <<>>
    ELSE LET raw_data == dir[Head(order)]
         IN  <<IndexRow(Head(order), raw_data, offset)>>
                 \o RowsOf(Tail(order), dir,
                           AdvanceOffset(offset, Len(EncodeAll(raw_data))))

\* the blobs a whole build writes, in processing order (main.rs:107-113)
RECURSIVE BlobsOf(_, _)
BlobsOf(order, dir) ==
    IF order = <<>> THEN <<>>
    ELSE EncodeAll(dir[Head(order)]) \o BlobsOf(Tail(order), dir)

\* the archive build_archive returns Ok with when it processes the files of
\* dir in this order (main.rs:58-152)
ArchiveOf(order, dir) ==
    LET blobs == BlobsOf(order, dir)
        image == DbImage(RowsOf(order, dir, InitialOffset))
    IN  AsBytes(BuiltHeader(InitialOffset + Len(blobs), Len(image)))
            \o blobs \o image

\* remove a stale temp database, open a new one, CREATE TABLE files
\* (main.rs:64-78)
OpenIndex ==
    /\ bpc = "placeholder"
    /\ \/ /\ tempdb' = FileOf(FreshIndex(tempdb))
          /\ stale_found' = tempdb.exists
          /\ bpc' = "indexed"
          /\ UNCHANGED <<failedAt, files_to_process, processed, current_offset,
                         index_start_offset, index_length>>
       \/ /\ tempdb' \in {tempdb, NoFile, FileOf(<<>>)}
          /\ Fail("index")
    /\ UNCHANGED <<mvars, inputs, out, out_pos, tampered, rvars>>

\* WalkDir::new(&input), conn.prepare, current_offset = 64 (main.rs:80-100);
\* the walk lists the regular files in the directory's own order
ScanInputs ==
    /\ bpc = "indexed"
    /\ \/ /\ files_to_process' \in Orders(DOMAIN inputs)
          /\ current_offset' = InitialOffset
          /\ bpc' = "writing"
          /\ UNCHANGED <<failedAt, processed, index_start_offset, index_length, stale_found>>
       \/ Fail("scan")
    /\ UNCHANGED <<mvars, inputs, out, out_pos, tempdb, tampered, rvars>>

\* one iteration of `for path in files_to_process` (main.rs:102-125)
ProcessFile ==
    /\ bpc = "writing"
    /\ processed < Len(files_to_process)
    /\ LET path == files_to_process[processed + 1]
           raw_data == inputs[path]
           compressed_data == EncodeAll(raw_data)
           blob_length == Len(compressed_data)
       IN  \/ /\ out' = FileOf(WriteAt(out.data, out_pos, compressed_data))
              /\ out_pos' = out_pos + blob_length
              /\ tempdb' = FileOf(InsertRow(tempdb.data,
                                            IndexRow(path, raw_data, current_offset)))
              /\ current_offset' = AdvanceOffset(current_offset, blob_length)
              /\ processed' = processed + 1
              /\ UNCHANGED <<bpc, failedAt, files_to_process,
                             index_start_offset, index_length, stale_found>>
           \* fs::read or write_all fails (k < blob_length), or the insert
           \* fails after the whole blob was written (k = blob_length)
           \/ \E k \in PartialLens(blob_length) \cup {blob_length} :
                /\ out' = FileOf(WriteAt(out.data, out_pos, SubSeq(compressed_data, 1, k)))
                /\ out_pos' = out_pos + k
                /\ Fail("blob")
                /\ UNCHANGED tempdb
    /\ UNCHANGED <<mvars, inputs, tampered, rvars>>

\* conn.close(), then std::io::copy of the temp database onto the output
\* (main.rs:129-134)
FinalizeIndex ==
    /\ bpc = "writing"
    /\ processed = Len(files_to_process)
    /\ \/ /\ index_start_offset' = current_offset
          /\ out' = FileOf(WriteAt(out.data, out_pos, tempdb.data))
          /\ out_pos' = out_pos + Len(tempdb.data)
          /\ index_length' = Len(tempdb.data)
          /\ bpc' = "finalized"
          /\ UNCHANGED <<failedAt, files_to_process, processed, current_offset,
                         stale_found>>
       \/ \E k \in PartialLens(Len(tempdb.data)) :
            /\ out' = FileOf(WriteAt(out.data, out_pos, SubSeq(tempdb.data, 1, k)))
            /\ out_pos' = out_pos + k
            /\ bpc' = "aborted"
            /\ failedAt' = "finalize"
            /\ index_start_offset' = current_offset
            /\ UNCHANGED <<files_to_process, processed, current_offset, index_length,
                           stale_found>>
    /\ UNCHANGED <<mvars, inputs, tempdb, tampered, rvars>>

\* where the header goes: output_file.seek(SeekFrom::Start(0)) (main.rs:136)
HeaderAtHandle == out_pos

HeaderPosition == 0

\* seek to 0 and write the real header (main.rs:136-147)
PatchHeader ==
    /\ bpc = "finalized"
    /\ LET header == BuiltHeader(index_start_offset, index_length)
       IN  \/ /\ out' = FileOf(WriteAt(out.data, HeaderPosition, AsBytes(header)))
              /\ out_pos' = HeaderPosition + HEADER_SIZE
              /\ bpc' = "patched"
              /\ UNCHANGED <<failedAt, files_to_process, processed, current_offset,
                             index_start_offset, index_length, stale_found>>
           \/ \E k \in PartialLens(HEADER_SIZE) :
                /\ out' = FileOf(WriteAt(out.data, HeaderPosition,
                                          SubSeq(AsBytes(header), 1, k)))
                /\ out_pos' = HeaderPosition + k
                /\ Fail("header")
    /\ UNCHANGED <<mvars, inputs, tempdb, tampered, rvars>>

\* fs::remove_file(temp_db_path), Ok(()) (main.rs:148-151)
RemoveTemp ==
    /\ bpc = "patched"
    /\ \/ /\ tempdb' = NoFile
          /\ bpc' = "done"
          /\ UNCHANGED <<failedAt, files_to_process, processed, current_offset,
                         index_start_offset, index_length, stale_found>>
       \/ /\ UNCHANGED tempdb
          /\ Fail("remove")
    /\ UNCHANGED <<mvars, inputs, out, out_pos, tampered, rvars>>

Build ==
    \/ CreateOutput
    \/ WritePlaceholder
    \/ OpenIndex
    \/ ScanInputs
    \/ ProcessFile
    \/ FinalizeIndex
    \/ PatchHeader
    \/ RemoveTemp

----------------------------------------------------------------------------
(* WaxReader: crates/wax-core/src/reader.rs *)

\* the paths callers ask for: every input path as the archive names it, and
\* one path no archive holds
QueryPaths == {Normalize(p) : p \in RawPaths} \cup {MissingPath}

NoResult ==
    [op |-> "none", path |-> <<>>, kind |-> "none", data |-> <<>>,
     mime |-> Null, entries |-> <<>>]

Result(op, path, kind) == [NoResult EXCEPT !.op = op, !.path = path, !.kind = kind]

\* the error open returns for a file too short to hold a header:
\* read_exact's io::Error through #[from] (reader.rs:12-13, 42)
ShortHeaderAsInvalidMagic == "InvalidMagic"

ShortHeaderError == "Io"

\* which way open goes on a file (reader.rs:38-49)
OpenOutcome(f) ==
    IF ~f.exists THEN "Io"
    ELSE IF Len(f.data) < HEADER_SIZE THEN ShortHeaderError
    ELSE IF ReadFrom(SubSeq(f.data, 1, HEADER_SIZE)).magic # WAX_MAGIC THEN "InvalidMagic"
    ELSE "Ok"

\* the bytes open copies into the working copy: file.take(index_length)
\* from index_offset, as many as the file holds (reader.rs:52-56)
ExtractIndex(data, header) ==
    Range(data, header.index_offset, header.index_offset + header.index_length)

\* what is left of the working copy when its NamedTempFile is dropped: with
\* the WaxReader that owns it (reader.rs:33), or with the error that leaves
\* open after reader.rs:54
LeakTemp(temp) == temp

DropTemp(temp) == NoFile

\* the WaxReader instances that run side by side
Readers == {1, 2}

\* a get_file_data call between its seek and its read
NoPending == [active |-> FALSE, path |-> <<>>, length |-> 0]

\* no WaxReader yet: handle and temp name 0 are no handle and no file
NoReader ==
    [state |-> "none", handle |-> 0, temp |-> 0, pending |-> NoPending,
     res |-> NoResult]

\* the open file description File::open gives reader r (reader.rs:38)
SharedHandle(r) == 1

Handle(r) == r

\* the name NamedTempFile::new gives reader r's working copy (reader.rs:54)
TempName(r) == r

\* WaxReader::open(path) on the output path (reader.rs:37-65)
Open ==
    /\ ~Running
    /\ rstate = "none"
    /\ IF OpenOutcome(out) # "Ok"
       THEN /\ rstate' = "failed"
            /\ rres' = Result("open", <<>>, OpenOutcome(out))
            /\ UNCHANGED <<rpos, rtemp>>
       ELSE LET header == ReadFrom(SubSeq(out.data, 1, HEADER_SIZE))
                image == ExtractIndex(out.data, header)
            IN  \/ /\ rstate' = "open"
                   /\ rtemp' = FileOf(image)
                   /\ rpos' = header.index_offset + Len(image)
                   /\ rres' = Result("open", <<>>, "Ok")
                \* seek, NamedTempFile::new, try_clone or copy fails: the
                \* temp file, if made, is dropped with the error
                \/ /\ rstate' = "failed"
                   /\ rtemp' = DropTemp(FileOf(image))
                   /\ rpos' = header.index_offset
                   /\ rres' = Result("open", <<>>, "Io")
    /\ UNCHANGED <<mvars, inputs, out, out_pos, tempdb, bvars, tampered>>

\* the outcome of get_file_data(path) (reader.rs:67-91):
\* [kind, data, pos] with pos the handle position it leaves
FileDataShortRead(index, data, pos, path) ==
    IF ~Queryable(index) THEN [kind |-> "Sql", data |-> <<>>, pos |-> pos]
    ELSE LET result == QueryRow(OpenDb(index).rows, path)
         IN  IF result = <<>> THEN [kind |-> "FileNotFound", data |-> <<>>, pos |-> pos]
             ELSE LET offset == result[1].blob_offset
                      length == result[1].blob_length
                      got == Range(data, offset, offset + length)
                      compressed_buffer == got \o Zeros(length - Len(got))
                      decompressed == DecodeAll(compressed_buffer)
                  IN  IF ~decompressed.ok
                      THEN [kind |-> "Io", data |-> <<>>, pos |-> offset + Len(got)]
                      ELSE [kind |-> "Ok", data |-> decompressed.data,
                            pos |-> offset + Len(got)]

FileDataNoSeek(index, data, pos, path) ==
    IF ~Queryable(index) THEN [kind |-> "Sql", data |-> <<>>, pos |-> pos]
    ELSE LET result == QueryRow(OpenDb(index).rows, path)
         IN  IF result = <<>> THEN [kind |-> "FileNotFound", data |-> <<>>, pos |-> pos]
             ELSE LET offset == pos
                      length == result[1].blob_length
                      compressed_buffer == Range(data, offset, offset + length)
                      decompressed == DecodeAll(compressed_buffer)
                  IN  IF Len(compressed_buffer) < length
                      THEN [kind |-> "Io", data |-> <<>>, pos |-> Max(offset, Len(data))]
                      ELSE IF ~decompressed.ok
                      THEN [kind |-> "Io", data |-> <<>>, pos |-> offset + length]
                      ELSE [kind |-> "Ok", data |-> decompressed.data,
                            pos |-> offset + length]

FileData(index, data, pos, path) ==
    IF ~Queryable(index) THEN [kind |-> "Sql", data |-> <<>>, pos |-> pos]
    ELSE LET result == QueryRow(OpenDb(index).rows, path)
         IN  IF result = <<>> THEN [kind |-> "FileNotFound", data |-> <<>>, pos |-> pos]
             ELSE LET offset == result[1].blob_offset
                      length == result[1].blob_length
                      compressed_buffer == Range(data, offset, offset + length)
                      decompressed == DecodeAll(compressed_buffer)
                  IN  IF Len(compressed_buffer) < length
                      THEN [kind |-> "Io", data |-> <<>>, pos |-> Max(offset, Len(data))]
                      ELSE IF ~decompressed.ok
                      THEN [kind |-> "Io", data |-> <<>>, pos |-> offset + length]
                      ELSE [kind |-> "Ok", data |-> decompressed.data,
                            pos |-> offset + length]

GetFileData ==
    /\ ~Running
    /\ rstate = "open"
    /\ \E path \in QueryPaths :
         LET r == FileData(rtemp.data, out.data, rpos, path)
         IN  /\ rres' = [Result("get_file_data", path, r.kind) EXCEPT !.data = r.data]
             /\ rpos' = r.pos
    /\ UNCHANGED <<mvars, inputs, out, out_pos, tempdb, bvars, tampered, rstate, rtemp>>

\* the outcome of get_mime_type(path) (reader.rs:93-106)
MimeTypeStrict(index, path) ==
    IF ~Queryable(index) THEN [kind |-> "Sql", mime |-> Null]
    ELSE LET mime_result == QueryRow(OpenDb(index).rows, path)
         IN  IF mime_result = <<>> THEN [kind |-> "FileNotFound", mime |-> Null]
             ELSE [kind |-> "Ok", mime |-> mime_result[1].mime_type]

MimeType(index, path) ==
    IF ~Queryable(index) THEN [kind |-> "Sql", mime |-> Null]
    ELSE LET mime_result == QueryRow(OpenDb(index).rows, path)
         IN  [kind |-> "Ok",
              mime |-> IF mime_result = <<>> \/ mime_result[1].mime_type = Null
                       THEN "application/octet-stream"
                       ELSE mime_result[1].mime_type]

GetMimeType ==
    /\ ~Running
    /\ rstate = "open"
    /\ \E path \in QueryPaths :
         LET r == MimeType(rtemp.data, path)
         IN  rres' = [Result("get_mime_type", path, r.kind) EXCEPT !.mime = r.mime]
    /\ UNCHANGED <<mvars, inputs, out, out_pos, tempdb, bvars, tampered, rstate, rpos, rtemp>>

\* a row as list_files returns it (reader.rs:115-119)
WaxEntry(row) ==
    [path |-> row.path,
     mime_type |-> IF row.mime_type = Null THEN "unknown" ELSE row.mime_type,
     size |-> row.original_size]

\* the outcome of list_files() (reader.rs:109-127)
FileList(index) ==
    IF ~Queryable(index) THEN [kind |-> "Sql", entries |-> <<>>]
    ELSE LET rows == OrderByPath(OpenDb(index).rows)
         IN  [kind |-> "Ok", entries |-> [i \in 1..Len(rows) |-> WaxEntry(rows[i])]]

ListFiles ==
    /\ ~Running
    /\ rstate = "open"
    /\ LET r == FileList(rtemp.data)
       IN  rres' = [Result("list_files", <<>>, r.kind) EXCEPT !.entries = r.entries]
    /\ UNCHANGED <<mvars, inputs, out, out_pos, tempdb, bvars, tampered, rstate, rpos, rtemp>>

\* the reader, or open's error, is dropped: NamedTempFile removes its file
Close ==
    /\ rstate \in {"open", "failed"}
    /\ rstate' = "none"
    /\ rtemp' = DropTemp(rtemp)
    /\ rpos' = 0
    /\ rres' = NoResult
    /\ UNCHANGED <<mvars, inputs, out, out_pos, tempdb, bvars, tampered>>

Read ==
    \/ Open
    \/ GetFileData
    \/ GetMimeType
    \/ ListFiles
    \/ Close

----------------------------------------------------------------------------
(* The environment *)

\* the lengths a finished archive is cut to: inside and at the end of the
\* header, around the start of the index, and one byte short of the end
TruncLens(data) ==
    {n \in {0, HEADER_SIZE - 1, HEADER_SIZE, index_start_offset - 1,
            index_start_offset, index_start_offset + 1, Len(data) - 1} :
        n >= 0 /\ n < Len(data)}

\* something truncates the finished archive
Truncate ==
    /\ bpc = "done"
    /\ rstate = "none"
    /\ ~tampered
    /\ \E n \in TruncLens(out.data) : out' = FileOf(SubSeq(out.data, 1, n))
    /\ tampered' = TRUE
    /\ UNCHANGED <<mvars, inputs, out_pos, tempdb, bvars, rvars>>

\* the rows of an archive made by other means, its first blob at base: an
\* entry with no content type, and an entry with one
CraftedRows(base) ==
    <<[path |-> <<97, 47, 98>>, mime_type |-> Null,
       blob_offset |-> base, blob_length |-> Len(EncodeAll(<<1>>)),
       original_size |-> 1],
      [path |-> <<99, 46, 106, 115>>, mime_type |-> MimeTable[2],
       blob_offset |-> base + Len(EncodeAll(<<1>>)),
       blob_length |-> Len(EncodeAll(<<255>>)),
       original_size |-> 1]>>

\* that archive: header, index image, the first entry's blob, and the
\* second entry's blob short of its last byte, so that the second entry's
\* range runs past the end of the file
CraftedArchive ==
    LET len == Len(DbImage(CraftedRows(0)))
        blob == EncodeAll(<<255>>)
    IN  AsBytes(BuiltHeader(HEADER_SIZE, len))
            \o DbImage(CraftedRows(HEADER_SIZE + len))
            \o EncodeAll(<<1>>)
            \o SubSeq(blob, 1, Len(blob) - 1)

\* a bare header with the signature and format version 2
VersionTwoHeader == AsBytes([BuiltHeader(0, 0) EXCEPT !.version = 2])

\* what can sit at the output path before the first build: nothing, an
\* empty file, files shorter than a header with and without the signature,
\* a header-sized file of zeros, one with a wrong signature, a bare header
\* with the right one, one of version 2, and an archive made by other means
ForeignFiles ==
    {NoFile,
     FileOf(<<>>),
     FileOf(SubSeq(WAX_MAGIC, 1, 3)),
     FileOf(WAX_MAGIC),
     FileOf(Zeros(HEADER_SIZE)),
     FileOf(<<87, 65, 88, 50>> \o Zeros(HEADER_SIZE - 4)),
     FileOf(WAX_MAGIC \o Zeros(HEADER_SIZE - 4)),
     FileOf(VersionTwoHeader),
     FileOf(CraftedArchive)}

----------------------------------------------------------------------------

Init ==
    /\ inputs \in InputDirs
    /\ out \in ForeignFiles
    /\ out_pos = 0
    /\ tempdb = NoFile
    /\ bpc = "idle"
    /\ failedAt = "none"
    /\ files_to_process = <<>>
    /\ processed = 0
    /\ current_offset = 0
    /\ index_start_offset = 0
    /\ index_length = 0
    /\ stale_found = FALSE
    /\ tampered = FALSE
    /\ rstate = "none"
    /\ rpos = 0
    /\ rtemp = NoFile
    /\ rres = NoResult
    /\ readers = [r \in Readers |-> NoReader]
    /\ hpos = [h \in Readers |-> 0]
    /\ temps = [t \in Readers |-> NoFile]

Next == Build \/ Read \/ Truncate

Spec == Init /\ [][Next]_vars

----------------------------------------------------------------------------
(* Two WaxReader instances on one archive file.  get_file_data is taken in *)
(* its two steps, seek and read, so that the calls of the two readers      *)
(* interleave between them.                                                *)

\* WaxReader::open by reader r (reader.rs:37-65)
ReaderOpen(r) ==
    /\ readers[r].state = "none"
    /\ IF OpenOutcome(out) # "Ok"
       THEN /\ readers' = [readers EXCEPT
                              ![r].state = "failed",
                              ![r].res = Result("open", <<>>, OpenOutcome(out))]
            /\ UNCHANGED <<hpos, temps>>
       ELSE LET header == ReadFrom(SubSeq(out.data, 1, HEADER_SIZE))
                image == ExtractIndex(out.data, header)
            IN  \/ /\ readers' = [readers EXCEPT ![r] =
                                     [state |-> "open", handle |-> Handle(r),
                                      temp |-> TempName(r), pending |-> NoPending,
                                      res |-> Result("open", <<>>, "Ok")]]
                   /\ hpos' = [hpos EXCEPT ![Handle(r)] =
                                  header.index_offset + Len(image)]
                   /\ temps' = [temps EXCEPT ![TempName(r)] = FileOf(image)]
                \/ /\ readers' = [readers EXCEPT
                                     ![r].state = "failed",
                                     ![r].res = Result("open", <<>>, "Io")]
                   /\ temps' = [temps EXCEPT ![TempName(r)] = DropTemp(FileOf(image))]
                   /\ UNCHANGED hpos
    /\ UNCHANGED svars

\* read_exact of length bytes at the handle's position, then decode_all
\* (reader.rs:85-90): [kind, data, pos]
BlobAt(data, pos, length) ==
    LET compressed_buffer == Range(data, pos, pos + length)
        decompressed == DecodeAll(compressed_buffer)
    IN  IF Len(compressed_buffer) < length
        THEN [kind |-> "Io", data |-> <<>>, pos |-> Max(pos, Len(data))]
        ELSE IF ~decompressed.ok
        THEN [kind |-> "Io", data |-> <<>>, pos |-> pos + length]
        ELSE [kind |-> "Ok", data |-> decompressed.data, pos |-> pos + length]

\* get_file_data by reader r up to its seek (reader.rs:67-83)
ReaderSeek(r) ==
    /\ readers[r].state = "open"
    /\ ~readers[r].pending.active
    /\ \E path \in QueryPaths :
         LET index == temps[readers[r].temp].data
             result == QueryRow(OpenDb(index).rows, path)
         IN  IF ~Queryable(index)
             THEN /\ readers' = [readers EXCEPT
                                    ![r].res = Result("get_file_data", path, "Sql")]
                  /\ UNCHANGED hpos
             ELSE IF result = <<>>
             THEN /\ readers' = [readers EXCEPT
                                    ![r].res = Result("get_file_data", path,
                                                      "FileNotFound")]
                  /\ UNCHANGED hpos
             ELSE /\ hpos' = [hpos EXCEPT ![readers[r].handle] = result[1].blob_offset]
                  /\ readers' = [readers EXCEPT ![r].pending =
                                     [active |-> TRUE, path |-> path,
                                      length |-> result[1].blob_length]]
    /\ UNCHANGED <<temps, svars>>

\* get_file_data by reader r from its read_exact on (reader.rs:85-90)
ReaderRead(r) ==
    /\ readers[r].state = "open"
    /\ readers[r].pending.active
    /\ LET blob == BlobAt(out.data, hpos[readers[r].handle],
                          readers[r].pending.length)
       IN  /\ readers' = [readers EXCEPT
                             ![r].pending = NoPending,
                             ![r].res = [Result("get_file_data",
                                                readers[r].pending.path, blob.kind)
                                             EXCEPT !.data = blob.data]]
           /\ hpos' = [hpos EXCEPT ![readers[r].handle] = blob.pos]
    /\ UNCHANGED <<temps, svars>>

\* get_mime_type by reader r (reader.rs:93-106)
ReaderGetMimeType(r) ==
    /\ readers[r].state = "open"
    /\ ~readers[r].pending.active
    /\ \E path \in QueryPaths :
         LET m == MimeType(temps[readers[r].temp].data, path)
         IN  readers' = [readers EXCEPT
                            ![r].res = [Result("get_mime_type", path, m.kind)
                                            EXCEPT !.mime = m.mime]]
    /\ UNCHANGED <<hpos, temps, svars>>

\* list_files by reader r (reader.rs:109-127)
ReaderListFiles(r) ==
    /\ readers[r].state = "open"
    /\ ~readers[r].pending.active
    /\ LET l == FileList(temps[readers[r].temp].data)
       IN  readers' = [readers EXCEPT
                          ![r].res = [Result("list_files", <<>>, l.kind)
                                          EXCEPT !.entries = l.entries]]
    /\ UNCHANGED <<hpos, temps, svars>>

\* reader r, or its open's error, is dropped (reader.rs:30-34)
ReaderClose(r) ==
    /\ readers[r].state \in {"open", "failed"}
    /\ ~readers[r].pending.active
    /\ readers' = [readers EXCEPT ![r] = NoReader]
    /\ temps' = IF readers[r].state = "open"
                THEN [temps EXCEPT ![readers[r].temp] = DropTemp(@)]
                ELSE temps
    /\ UNCHANGED <<hpos, svars>>

\* the content each file of a sample directory holds
SampleContent(p) ==
    IF <<p[2]>> = Slash THEN <<0>>
    ELSE IF <<p[2]>> = Backslash THEN <<255, 10>>
    ELSE <<>>

SampleDirs == {d \in InputDirs : \A p \in DOMAIN d : d[p] = SampleContent(p)}

\* the archive files the readers are opened on: the builds of the sample
\* directories and the files no build made
InitReaders ==
    /\ inputs \in SampleDirs
    /\ out \in {FileOf(ArchiveOf(order, inputs)) : order \in Orders(DOMAIN inputs)}
                \cup (IF DOMAIN inputs = {} THEN ForeignFiles ELSE {})
    /\ out_pos = 0
    /\ tempdb = NoFile
    /\ bpc = "idle"
    /\ failedAt = "none"
    /\ files_to_process = <<>>
    /\ processed = 0
    /\ current_offset = 0
    /\ index_start_offset = 0
    /\ index_length = 0
    /\ stale_found = FALSE
    /\ tampered = FALSE
    /\ rstate = "none"
    /\ rpos = 0
    /\ rtemp = NoFile
    /\ rres = NoResult
    /\ readers = [r \in Readers |-> NoReader]
    /\ hpos = [h \in Readers |-> 0]
    /\ temps = [t \in Readers |-> NoFile]

NextReaders ==
    \E r \in Readers :
        \/ ReaderOpen(r)
        \/ ReaderSeek(r)
        \/ ReaderRead(r)
        \/ ReaderGetMimeType(r)
        \/ ReaderListFiles(r)
        \/ ReaderClose(r)

SpecReaders == InitReaders /\ [][NextReaders]_vars

----------------------------------------------------------------------------
(* What the claims speak of *)

\* build_archive returned Ok and nothing has touched the archive since
Built == bpc = "done" /\ ~tampered

\* no two input files normalize to the same path
InputsDistinct ==
    \A p, q \in DOMAIN inputs : Normalize(p) = Normalize(q) => p = q

\* the header at the front of the output file
OutHeader == ReadFrom(SubSeq(out.data, 1, HEADER_SIZE))

\* the rows of the index image the output file's header points at
ArchiveRows == OpenDb(ExtractIndex(out.data, OutHeader)).rows

RECURSIVE SumBlobLengths(_)
SumBlobLengths(rows) ==
    IF rows = <<>> THEN 0 ELSE Head(rows).blob_length + SumBlobLengths(Tail(rows))

BeginsWithSignature(f) ==
    Len(f.data) >= Len(WAX_MAGIC) /\ SubSeq(f.data, 1, Len(WAX_MAGIC)) = WAX_MAGIC

\* the reader's last call was open, on the file now at the output path
Opened == rstate # "none" /\ rres.op = "open"

\* rows tile the byte range [lo, hi): each starts at lo or where another
\* ends, ends at hi or where another starts, and no two overlap
Tiles(rows, lo, hi) ==
    LET start(i) == rows[i].blob_offset
        end(i) == rows[i].blob_offset + rows[i].blob_length
        I == 1..Len(rows)
    IN  /\ rows = <<>> => lo = hi
        /\ \A i \in I :
             /\ start(i) >= lo /\ end(i) <= hi
             /\ start(i) = lo \/ \E j \in I : end(j) = start(i)
             /\ end(i) = hi \/ \E j \in I : start(j) = end(i)
        /\ \A i, j \in I : i # j => end(i) <= start(j) \/ end(j) <= start(i)

----------------------------------------------------------------------------
(* Claims *)

\* C1: after a successful build, get_file_data of each input file's path
\* (as the archive names it) returns that file's original bytes.
C1_RoundTrip ==
    (Built /\ rstate = "open" /\ rres.op = "get_file_data") =>
        \A p \in DOMAIN inputs :
            Normalize(p) = rres.path => rres.kind = "Ok" /\ rres.data = inputs[p]

\* C2: list_files on a freshly built archive returns every input path
\* exactly once, in ascending order of path, each with the file's original
\* length as its size.
C2_ListFiles ==
    (Built /\ rstate = "open" /\ rres.op = "list_files") =>
        /\ rres.kind = "Ok"
        /\ \A p \in DOMAIN inputs :
             Cardinality({i \in 1..Len(rres.entries) :
                             rres.entries[i].path = Normalize(p)}) = 1
        /\ \A i \in 1..Len(rres.entries) :
             \E p \in DOMAIN inputs :
                 /\ rres.entries[i].path = Normalize(p)
                 /\ rres.entries[i].size = Len(inputs[p])
        /\ \A i \in 1..(Len(rres.entries) - 1) :
             PathLess(rres.entries[i].path, rres.entries[i + 1].path)

\* C3 as stated: open on any file that does not begin with the signature,
\* an empty or shorter-than-64-byte file included, fails with InvalidMagic.
C3_AlwaysInvalidMagic ==
    (Opened /\ out.exists /\ ~BeginsWithSignature(out)) =>
        rstate = "failed" /\ rres.kind = "InvalidMagic"

\* C3 as amended: open on a file of at least 64 bytes that does not begin
\* with the signature fails with InvalidMagic; on a file shorter than 64
\* bytes (an empty one included) it fails with an I/O error.
C3_InvalidMagicOrIo ==
    (Opened /\ out.exists /\ ~BeginsWithSignature(out)) =>
        /\ rstate = "failed"
        /\ rres.kind = IF Len(out.data) >= HEADER_SIZE THEN "InvalidMagic" ELSE "Io"

C3_Witness ==
    /\ Opened /\ out.exists /\ ~BeginsWithSignature(out)
    /\ Len(out.data) >= HEADER_SIZE
    /\ rres.kind = "InvalidMagic"

\* C4: a build of two files whose paths normalize to the same string never
\* completes.
C4_DuplicatePathFails == bpc = "done" => InputsDistinct

\* C5: open never returns a reader on an archive truncated below its
\* header's index_offset + index_length.
C5_TruncatedNotOpened ==
    (tampered /\ Len(out.data) < index_start_offset + index_length) =>
        rstate # "open"

\* the first 64 bytes of the output file are the all-zero placeholder
ZeroHeader ==
    /\ out.exists
    /\ Len(out.data) >= HEADER_SIZE
    /\ SubSeq(out.data, 1, HEADER_SIZE) = Zeros(HEADER_SIZE)

\* C6 as stated: a build that has created its output file and aborts at any
\* step before the final header write leaves the all-zero placeholder
\* header, and open rejects the leftover file with InvalidMagic.
C6_AbortLeavesPlaceholder ==
    (bpc = "aborted" /\ failedAt \in {"placeholder", "index", "scan", "blob", "finalize"}) =>
        /\ ZeroHeader
        /\ Opened => rstate = "failed" /\ rres.kind = "InvalidMagic"

\* C6 as amended: a build that aborts after the placeholder write and
\* before the final header write leaves the all-zero placeholder header, and
\* open rejects the leftover file with InvalidMagic; a build that aborts in
\* the placeholder write leaves a file shorter than 64 bytes, all zero, and
\* open rejects it with an I/O error.
C6_AbortLeavesRejectedFile ==
    /\ (bpc = "aborted" /\ failedAt \in {"index", "scan", "blob", "finalize"}) =>
          /\ ZeroHeader
          /\ Opened => rstate = "failed" /\ rres.kind = "InvalidMagic"
    /\ (bpc = "aborted" /\ failedAt = "placeholder") =>
          /\ out.exists
          /\ Len(out.data) < HEADER_SIZE
          /\ out.data = Zeros(Len(out.data))
          /\ Opened => rstate = "failed" /\ rres.kind = "Io"

C6_Witness ==
    /\ bpc = "aborted" /\ failedAt = "blob" /\ processed >= 1
    /\ Len(out.data) > HEADER_SIZE
    /\ Opened /\ rres.kind = "InvalidMagic"

\* C7: the header of every successfully built archive has index_offset
\* equal to 64 plus the sum of blob_length over the entries written, and
\* index_offset + index_length at most the length of the file.
C7_HeaderInvariant ==
    Built =>
        /\ OutHeader.index_offset = HEADER_SIZE + SumBlobLengths(ArchiveRows)
        /\ OutHeader.index_offset + OutHeader.index_length <= Len(out.data)
        /\ Len(ArchiveRows) = Cardinality(DOMAIN inputs)

C7_Witness == Built /\ Len(ArchiveRows) >= 2

\* C8: while blobs are being written, every row's blob_offset is where that
\* file's compressed bytes begin in the output file, every blob_offset is at
\* least 64, and the rows tile [64, end of the blobs written so far).
C8_BlobTiling ==
    bpc = "writing" =>
        LET rows == OpenDb(tempdb.data).rows
        IN  /\ Len(rows) = processed
            /\ \A i \in 1..Len(rows) :
                 /\ rows[i].blob_offset >= HEADER_SIZE
                 /\ Range(out.data, rows[i].blob_offset,
                          rows[i].blob_offset + rows[i].blob_length)
                      = EncodeAll(inputs[files_to_process[i]])
            /\ Tiles(rows, HEADER_SIZE, Len(out.data))

C8_Witness == bpc = "writing" /\ processed >= 2

\* C9: a build from an empty input directory that succeeds yields an
\* archive whose header has index_offset 64 and whose index has no entries:
\* list_files returns the empty sequence.
C9_EmptyInput ==
    (Built /\ DOMAIN inputs = {}) =>
        /\ OutHeader.index_offset = HEADER_SIZE
        /\ Queryable(ExtractIndex(out.data, OutHeader))
        /\ ArchiveRows = <<>>
        /\ (rstate = "open" /\ rres.op = "list_files") =>
               rres.kind = "Ok" /\ rres.entries = <<>>

C9_Witness ==
    /\ Built /\ DOMAIN inputs = {}
    /\ rstate = "open" /\ rres.op = "list_files" /\ rres.kind = "Ok"

\* C10: on every opened archive, get_file_data of a path with no entry in
\* the index fails with FileNotFound.
C10_MissingPathNotFound ==
    (/\ rstate = "open"
     /\ rres.op = "get_file_data"
     /\ RowsWithPath(OpenDb(rtemp.data).rows, rres.path) = {}) =>
        rres.kind = "FileNotFound" /\ rres.data = <<>>

\* the rows the open reader's working copy holds
ReaderRows == OpenDb(rtemp.data).rows

C12_AbsentRendersAsOctetStream ==
    (rstate = "open" /\ rres.op = "list_files" /\ rres.kind = "Ok") =>
        \A i \in 1..Len(rres.entries) :
            OrderByPath(ReaderRows)[i].mime_type = Null =>
                rres.entries[i].mime_type = "application/octet-stream"

\* C13: open accepts a header only if its version field is 1.
C13_OnlyVersionOneAccepted == rstate = "open" => OutHeader.version = 1

\* the entry get_file_data last looked up has a blob range that runs past
\* the end of the archive file
BlobPastEnd ==
    /\ rstate = "open" /\ rres.op = "get_file_data"
    /\ Queryable(rtemp.data)
    /\ QueryRow(ReaderRows, rres.path) # <<>>
    /\ LET row == QueryRow(ReaderRows, rres.path)[1]
       IN  row.blob_offset + row.blob_length > Len(out.data)

C14_WorkingCopyScoped ==
    /\ rstate = "open" => rtemp.exists
    /\ rres.op \in {"get_file_data", "get_mime_type", "list_files"} => rtemp.exists
    /\ rstate \in {"none", "failed"} => ~rtemp.exists

\* open failed after the header was accepted, which is after the step that
\* creates the working copy became reachable
C14_Witness ==
    /\ rstate = "failed" /\ rres.kind = "Io"
    /\ OpenOutcome(out) = "Ok"
    /\ ~rtemp.exists

\* where open leaves the handle of a reader that has made no call yet
FreshPos == OutHeader.index_offset + Len(rtemp.data)

\* what get_file_data(path) returns, data or error, with the handle at pos
Answer(pos, path) ==
    LET r == FileData(rtemp.data, out.data, pos, path)
    IN  [kind |-> r.kind, data |-> r.data]

\* C19: whatever calls an open reader has served, get_file_data returns for
\* every path what a reader that has served none returns, and the result it
\* last returned is that one.
C19_HistoryIndependent ==
    rstate = "open" =>
        /\ \A path \in QueryPaths : Answer(rpos, path) = Answer(FreshPos, path)
        /\ rres.op = "get_file_data" =>
               [kind |-> rres.kind, data |-> rres.data] = Answer(FreshPos, rres.path)

\* a failed read has left the handle away from where open left it, and a
\* later lookup of another path succeeds
C19_Witness ==
    /\ rstate = "open" /\ rres.op = "get_file_data" /\ rres.kind = "Io"
    /\ rpos # FreshPos
    /\ \E path \in QueryPaths : Answer(rpos, path).kind = "Ok"

\* the step appends to the output file the first bytes, or all, of bytes
AppendsPrefixOf(bytes) ==
    \E k \in 0..Len(bytes) : out'.data = out.data \o SubSeq(bytes, 1, k)

\* what each step of a running build may do to the output file
WriteOrderStep ==
    /\ bpc = "created" =>
           /\ out.data = <<>>
           /\ AppendsPrefixOf(Zeros(HEADER_SIZE))
           /\ bpc' = "placeholder" => out'.data = Zeros(HEADER_SIZE)
    /\ bpc \in {"placeholder", "indexed", "patched"} => out' = out
    /\ (bpc = "writing" /\ processed < Len(files_to_process)) =>
           /\ AppendsPrefixOf(EncodeAll(inputs[files_to_process[processed + 1]]))
           /\ bpc' # "finalized"
    /\ (bpc = "writing" /\ processed = Len(files_to_process)) =>
           /\ AppendsPrefixOf(tempdb.data)
           /\ index_start_offset' = Len(out.data)
           /\ bpc' = "finalized" => out'.data = out.data \o tempdb.data
           /\ processed' = processed
    /\ bpc = "finalized" =>
           /\ Len(out'.data) = Len(out.data)
           /\ Range(out'.data, HEADER_SIZE, Len(out.data))
                  = Range(out.data, HEADER_SIZE, Len(out.data))
           /\ Range(out.data, 0, HEADER_SIZE) = Zeros(HEADER_SIZE)
           /\ index_start_offset + index_length = Len(out.data)
           /\ processed' = processed
    /\ bpc = "patched" => bpc' \in {"patched", "done", "aborted"}

\* C17: a build writes the all-zero placeholder, then the blobs in processing
\* order, then the index image right after the last blob, then the header at
\* position 0; no blob follows the index and nothing follows the header.
C17_WriteOrder == [][WriteOrderStep]_vars

\* the header has been written over the placeholder of an archive that holds
\* blobs and the whole index image
C17_Witness ==
    /\ bpc = "patched" /\ processed >= 1
    /\ OutHeader = BuiltHeader(index_start_offset, index_length)
    /\ Len(out.data) = index_start_offset + index_length

\* C20: when a build has returned Ok the temporary index file is gone and
\* the archive's index holds the rows of that build's files and no others,
\* whatever an earlier aborted build left at the temporary path.
C20_NoStaleIndex ==
    bpc = "done" =>
        /\ ~tempdb.exists
        /\ ~tampered =>
               /\ Queryable(ExtractIndex(out.data, OutHeader))
               /\ ArchiveRows = RowsOf(files_to_process, inputs, InitialOffset)

\* a build that found an earlier build's temporary index has returned Ok
C20_Witness ==
    /\ bpc = "done" /\ ~tampered
    /\ stale_found
    /\ Len(files_to_process) >= 1

\* what a reader opened on the archive file data answers: get_file_data for
\* every path, and list_files
AnswersOf(data) ==
    LET index == ExtractIndex(data, ReadFrom(SubSeq(data, 1, HEADER_SIZE)))
    IN  [files |-> [path \in QueryPaths |->
                       LET r == FileData(index, data, 0, path)
                       IN  [kind |-> r.kind, data |-> r.data]],
         list |-> FileList(index)]

\* C18: the archive a build returns is the one its processing order gives,
\* and when the input files have distinct normalized paths the archive of
\* every other processing order answers get_file_data, for every path, and
\* list_files as it does.
C18_OrderIndependent ==
    Built =>
        /\ out.data = ArchiveOf(files_to_process, inputs)
        /\ InputsDistinct =>
               \A order \in Orders(DOMAIN inputs) :
                   AnswersOf(ArchiveOf(order, inputs)) = AnswersOf(out.data)

\* a build of two files is done and another order gives another archive
C18_Witness ==
    /\ Built /\ InputsDistinct
    /\ Len(files_to_process) >= 2
    /\ \E order \in Orders(DOMAIN inputs) : ArchiveOf(order, inputs) # out.data
    /\ \E path \in QueryPaths : AnswersOf(out.data).files[path].kind = "Ok"

\* the index a reader that is alone on the archive file works on
AloneIndex == ExtractIndex(out.data, OutHeader)

\* the result res is one its call returns to a reader that is alone
AloneResult(res) ==
    /\ res.op = "open" =>
           res.kind \in {OpenOutcome(out)}
                            \cup (IF OpenOutcome(out) = "Ok" THEN {"Io"} ELSE {})
    /\ res.op = "get_file_data" =>
           LET alone == FileData(AloneIndex, out.data, 0, res.path)
           IN  res.kind = alone.kind /\ res.data = alone.data
    /\ res.op = "get_mime_type" =>
           LET alone == MimeType(AloneIndex, res.path)
           IN  res.kind = alone.kind /\ res.mime = alone.mime
    /\ res.op = "list_files" =>
           LET alone == FileList(AloneIndex)
           IN  res.kind = alone.kind /\ res.entries = alone.entries

\* C15: with two readers on one archive file, under every interleaving of
\* their calls, each call returns what it returns to a reader that is alone,
\* and each open reader's working copy is the archive's index range.
C15_ReadersIndependent ==
    \A r \in Readers :
        /\ AloneResult(readers[r].res)
        /\ readers[r].state = "open" =>
               temps[readers[r].temp] = FileOf(AloneIndex)

\* reader 1 has read a file while reader 2 is between the seek and the read
\* of another file
C15_Witness ==
    /\ readers[1].state = "open" /\ readers[2].state = "open"
    /\ readers[1].res.op = "get_file_data" /\ readers[1].res.kind = "Ok"
    /\ readers[2].pending.active
    /\ readers[2].pending.path # readers[1].res.path
    /\ hpos[readers[2].handle] # hpos[readers[1].handle]

============================================================================
